---- MODULE Spec2Model ----
(***************************************************************************)
(* plaid2text storage_manager.py: the two transaction stores               *)
(* (MongoDBStorage, SQLiteStorage) as one state machine.                   *)
(*                                                                         *)
(* A storage instance is built for one backend.  The caller runs one       *)
(* handler at a time (save_transactions, update_transaction,               *)
(* get_transactions, check_pending).  The two writers are `for` loops that *)
(* write and commit once per element of a sequence; one loop iteration     *)
(* is one step, pc is the handler the caller is in, Return is the end of   *)
(* the handler, and an exception ends the handler at the iteration that    *)
(* raised it.                                                              *)
(*                                                                         *)
(* Python values: None is "None", True/False inside the metadata mapping   *)
(* are "True"/"False", an optional value is a set with at most one         *)
(* element (NULL == {}), a date is its day number, a JSON text is the      *)
(* sequence of its <<key, value>> members.  datetime.now() is the token    *)
(* "now" and the import-time value of TEXT_DOC's date_downloaded is        *)
(* "import_time": no operation reads either.  The columns created and      *)
(* updated of the SQLite table are written and never read; they are left   *)
(* out.  The core fields kept are the ones an operation reads or that      *)
(* identify the record; the others are copied like amount.                 *)
(***************************************************************************)
EXTENDS Integers, Sequences, FiniteSets, TLC

VARIABLES backend, account, table, pc, call

vars == <<backend, account, table, pc, call>>

-----------------------------------------------------------------------------
(* Bounds of the model *)

\* transaction dates are the days 9 .. MaxDate of one month (9 and 10 differ
\* in their first digit, so text order and date order are told apart)
MaxDate == 10
\* amounts are 1 .. MaxAmount
MaxAmount == 2
\* rows the SQLite table may hold
MaxRows == 2

Backends == {"mongo", "sqlite"}
TxnIds == {"T1", "T2"}
AccountIds == {"A1", "A2"}
Dates == 9 .. MaxDate
Amounts == 1 .. MaxAmount
\* None for a date argument or field
NoDate == 0

-----------------------------------------------------------------------------
(* Optional values and mappings *)

NULL == {}
Some(v) == {v}
TheVal(o) == CHOOSE v \in o : TRUE

EmptyMap == [k \in {} |-> ""]
MapSet(m, k, v) == [x \in (DOMAIN m) \cup {k} |-> IF x = k THEN v ELSE m[x]]
MapGet(m, k) == IF k \in DOMAIN m THEN Some(m[k]) ELSE NULL

\* all orderings of a finite set
Orderings(S) ==
  {s \in [1 .. Cardinality(S) -> S] : \A i, j \in 1 .. Cardinality(S) : i # j => s[i] # s[j]}

-----------------------------------------------------------------------------
(* Dates, datetimes and ISO strings *)

\* datetime.datetime.combine(d, datetime.time()): the datetime at midnight
DatetimeCombine(d) == [day |-> d, secs |-> 0]
DatetimeLeq(a, b) == a.day < b.day \/ (a.day = b.day /\ a.secs <= b.secs)

\* date.isoformat() and strftime("%Y-%m-%d"): the text "YYYY-MM-DD"; year and
\* month are the same for every date of the model, the text is the two
\* digits of the day
IsoFormat(d) == <<d \div 10, d % 10>>
\* comparison of two texts, character by character (SQLite's text order)
TextLeq(a, b) == a[1] < b[1] \/ (a[1] = b[1] /\ a[2] <= b[2])
\* dateutil.parser.parse of an ISO date text: a datetime at midnight
DateParse(txt) == [day |-> 10 * txt[1] + txt[2], secs |-> 0]

-----------------------------------------------------------------------------
(* JSON *)

MetaKeyOrder ==
  <<"tags", "payee", "posting_account", "associated_account", "date_downloaded",
    "date_last_pulled", "pulled_to_file", "archived">>

PyToJson(v) ==
  CASE v = "True" -> "true" [] v = "False" -> "false" [] v = "None" -> "null" [] OTHER -> v
JsonToPy(v) ==
  CASE v = "true" -> "True" [] v = "false" -> "False" [] v = "null" -> "None" [] OTHER -> v

\* json.dumps of a metadata mapping: its members in order
JsonDumps(m) ==
  LET keys == SelectSeq(MetaKeyOrder, LAMBDA k : k \in DOMAIN m)
  IN  [i \in 1 .. Len(keys) |-> <<keys[i], PyToJson(m[keys[i]])>>]
JsonKeys(txt) == {txt[i][1] : i \in 1 .. Len(txt)}
\* the value of the last member named k
JsonMember(txt, k) ==
  txt[CHOOSE i \in 1 .. Len(txt) :
        txt[i][1] = k /\ \A j \in (i + 1) .. Len(txt) : txt[j][1] # k][2]
\* json.loads of a metadata text
JsonLoads(txt) == [k \in JsonKeys(txt) |-> JsonToPy(JsonMember(txt, k))]
\* SQLite json_extract(txt, '$.k'): NULL when the text has no member k
JsonExtract(txt, k) == IF k \in JsonKeys(txt) THEN Some(JsonMember(txt, k)) ELSE NULL

-----------------------------------------------------------------------------
(* Input: the transactions the caller passes *)

TEXT_DOC ==
  [tags |-> "[]", payee |-> "", posting_account |-> "", associated_account |-> "",
   date_downloaded |-> "import_time", date_last_pulled |-> "", pulled_to_file |-> "False"]

\* the plaid2text member a transaction object may carry (t.get('plaid2text'))
Plaid2TextInputs == {NULL, Some(EmptyMap), Some([pulled_to_file |-> "True"])}

\* a settled transaction of account A1 with amount 1, an authorized_date and
\* no plaid2text member
PlainTransaction(id, d) ==
  [account_id |-> "A1", transaction_id |-> id, amount |-> 1, date |-> d, pending |-> FALSE,
   authorized_date |-> d, plaid2text |-> NULL]

\* the transactions that differ from a plain one in one field
Variants(p) ==
  {[p EXCEPT !.account_id = a] : a \in AccountIds}
    \cup {[p EXCEPT !.amount = x] : x \in Amounts}
    \cup {[p EXCEPT !.pending = TRUE], [p EXCEPT !.authorized_date = NoDate]}
    \cup {[p EXCEPT !.plaid2text = m] : m \in Plaid2TextInputs}

Transactions == UNION {Variants(PlainTransaction(id, d)) : id \in TxnIds, d \in Dates}

\* the fields a patch of update_transaction may name
Patches == {EmptyMap, [payee |-> "Cafe"]}
\* one element of update_transaction's sequence
UpdateEntries == [transaction_id : TxnIds, patch : Patches]
\* mark_pulled
MarkValues == {"None", "True", "False"}
\* from_date, to_date
DateArgs == Dates \cup {NoDate}

-----------------------------------------------------------------------------
(* State *)

\* call: the handler the caller is in or, while idle after an exception, the
\* handler that raised it.  For a writer: id, the transaction_id of the
\* element of the last iteration; hit, whether its write found that key
\* stored; mark, mark_pulled; txn, the transaction save_transactions was
\* given in the last iteration.  For get_transactions: its arguments and the
\* list it returns.  For check_pending: ret, the value it returns.  raised:
\* the handler ended by an exception, of the class error.
NoCall ==
  [op |-> "none", id |-> "", hit |-> FALSE, mark |-> "None", raised |-> FALSE,
   from |-> NoDate, to |-> NoDate, only_new |-> FALSE, out |-> <<>>,
   txn |-> NULL, ret |-> "None", error |-> ""]

\* the handler op ended by an exception of the class error
Raised(op, error) == [NoCall EXCEPT !.op = op, !.raised = TRUE, !.error = error]

\* MongoDBStorage.__init__ / SQLiteStorage.__init__: an empty collection, or
\* the empty table with its unique index on (account_id, transaction_id)
InitBackend(b) ==
  /\ backend = b
  /\ account = [id \in {} |-> EmptyMap]
  /\ table = [key \in {} |-> EmptyMap]
  /\ pc = "idle"
  /\ call = NoCall

Init == \E b \in Backends : InitBackend(b)
InitMongo == InitBackend("mongo")
InitSqlite == InitBackend("sqlite")

-----------------------------------------------------------------------------
(* MongoDBStorage *)

\* t.to_dict() with date and authorized_date made datetimes; authorized_date
\* stays None when datetime.combine raises on it
MongoSetFields(t) ==
  [account_id |-> t.account_id, transaction_id |-> t.transaction_id, amount |-> t.amount,
   date |-> DatetimeCombine(t.date),
   authorized_date |-> IF t.authorized_date = NoDate THEN NULL
                       ELSE Some(DatetimeCombine(t.authorized_date)),
   pending |-> t.pending]

\* '$set' and '$setOnInsert' both name plaid2text when the transaction carries
\* one: the server refuses the update (conflicting update operators)
MongoSaveRaises(t) == t.plaid2text # NULL

\* the default document written by '$set' instead of '$setOnInsert'
MongoUpsertMeta_Set(coll, id) == TEXT_DOC

\* '$setOnInsert': TEXT_DOC: the metadata of the document after the upsert
MongoUpsertMeta(coll, id) == IF id \in DOMAIN coll THEN coll[id].plaid2text ELSE TEXT_DOC

\* insert_one in place of the upsert: every save adds a document under an
\* _id the server generates (one of three; the collection is left as it is
\* when they are used up)
MongoUpsert_InsertOne(coll, t) ==
  LET free == {"O1", "O2", "O3"} \ DOMAIN coll
      f == MongoSetFields(t)
      oid == CHOOSE o \in free : TRUE
      doc == [_id |-> oid, account_id |-> f.account_id, transaction_id |-> f.transaction_id,
              amount |-> f.amount, date |-> f.date, authorized_date |-> f.authorized_date,
              pending |-> f.pending, plaid2text |-> TEXT_DOC]
  IN  IF free = {} THEN coll
      ELSE [x \in (DOMAIN coll) \cup {oid} |-> IF x = oid THEN doc ELSE coll[x]]

\* update_many({'_id': id}, {'$set': t, '$setOnInsert': TEXT_DOC}, upsert=True)
MongoUpsert(coll, t) ==
  LET id == t.transaction_id
      f == MongoSetFields(t)
      doc == [_id |-> id, account_id |-> f.account_id, transaction_id |-> f.transaction_id,
              amount |-> f.amount, date |-> f.date, authorized_date |-> f.authorized_date,
              pending |-> f.pending, plaid2text |-> MongoUpsertMeta(coll, id)]
  IN  [x \in (DOMAIN coll) \cup {id} |-> IF x = id THEN doc ELSE coll[x]]

\* one iteration of save_transactions' loop
MongoSaveStep(t) ==
  /\ backend = "mongo"
  /\ pc \in {"idle", "save"}
  /\ IF t.pending
     THEN /\ account' = account
          /\ pc' = "save"
          /\ call' = [NoCall EXCEPT !.op = "save", !.id = t.transaction_id,
                                    !.txn = Some(t)]
     ELSE IF MongoSaveRaises(t)
     THEN /\ account' = account
          /\ pc' = "idle"
          /\ call' = Raised("save", "WriteError")
     ELSE /\ account' = MongoUpsert(account, t)
          /\ pc' = "save"
          /\ call' = [NoCall EXCEPT !.op = "save", !.id = t.transaction_id,
                                    !.hit = (t.transaction_id \in DOMAIN account),
                                    !.txn = Some(t)]
  /\ UNCHANGED <<backend, table>>

\* the query with '$lt' for the upper bound of the range
MongoMatches_ExclusiveTo(doc, from_date, to_date, only_new) ==
  LET from_dt == DatetimeCombine(from_date)
      to_dt == DatetimeCombine(to_date)
  IN  /\ only_new => MapGet(doc.plaid2text, "pulled_to_file") # Some("True")
      /\ (from_date # NoDate /\ to_date # NoDate /\ DatetimeLeq(from_dt, to_dt))
            => (DatetimeLeq(from_dt, doc.date) /\ ~DatetimeLeq(to_dt, doc.date))

\* the query get_transactions builds, applied to one document
MongoMatches(doc, from_date, to_date, only_new) ==
  LET from_dt == DatetimeCombine(from_date)
      to_dt == DatetimeCombine(to_date)
  IN  /\ only_new => MapGet(doc.plaid2text, "pulled_to_file") # Some("True")
      /\ IF from_date # NoDate /\ to_date # NoDate /\ DatetimeLeq(from_dt, to_dt)
         THEN DatetimeLeq(from_dt, doc.date) /\ DatetimeLeq(doc.date, to_dt)
         ELSE IF from_date # NoDate /\ to_date = NoDate
         THEN DatetimeLeq(from_dt, doc.date)
         ELSE IF from_date = NoDate /\ to_date # NoDate
         THEN DatetimeLeq(doc.date, to_dt)
         ELSE TRUE

\* .sort('date', ASCENDING): the orders a sort by date can give (documents of
\* equal date in either order)
MongoSort(docs) ==
  {s \in Orderings(docs) : \A i, j \in 1 .. Len(s) : i < j => DatetimeLeq(s[i].date, s[j].date)}

\* get_transactions: the lists it can return
MongoGetTransactions(coll, from_date, to_date, only_new) ==
  MongoSort({coll[id] : id \in
             {x \in DOMAIN coll : MongoMatches(coll[x], from_date, to_date, only_new)}})

MongoGet(from_date, to_date, only_new) ==
  /\ backend = "mongo"
  /\ pc = "idle"
  /\ \E out \in MongoGetTransactions(account, from_date, to_date, only_new) :
       call' = [NoCall EXCEPT !.op = "get", !.from = from_date, !.to = to_date,
                              !.only_new = only_new, !.out = out]
  /\ pc' = "get"
  /\ UNCHANGED <<backend, account, table>>

\* the sub-document update_transaction writes: the entry without its
\* transaction_id, with pulled_to_file and, when marked, date_last_pulled
MongoUpdateDoc(patch, mark_pulled) ==
  LET txn == MapSet(patch, "pulled_to_file", mark_pulled)
  IN  IF mark_pulled = "True" THEN MapSet(txn, "date_last_pulled", "now") ELSE txn

\* update_many with an empty filter: every document gets the sub-document
MongoUpdateOne_AllDocs(coll, id, txn) ==
  [x \in DOMAIN coll |-> [coll[x] EXCEPT !.plaid2text = txn]]

\* update_one({'_id': id}, {'$set': {"plaid2text": txn}}): no upsert
MongoUpdateOne(coll, id, txn) ==
  IF id \in DOMAIN coll
  THEN [coll EXCEPT ![id] = [coll[id] EXCEPT !.plaid2text = txn]]
  ELSE coll

\* one iteration of update_transaction's loop
MongoUpdateStep(e, mark_pulled) ==
  /\ backend = "mongo"
  /\ \/ pc = "idle"
     \/ pc = "update" /\ mark_pulled = call.mark
  /\ account' = MongoUpdateOne(account, e.transaction_id, MongoUpdateDoc(e.patch, mark_pulled))
  /\ pc' = "update"
  /\ call' = [NoCall EXCEPT !.op = "update", !.id = e.transaction_id,
                            !.hit = (e.transaction_id \in DOMAIN account),
                            !.mark = mark_pulled]
  /\ UNCHANGED <<backend, table>>

\* the query with pulled_to_file = False in place of $ne True
MongoCheckPendingResult_EqFalse(coll) ==
  LET unpulled == {id \in DOMAIN coll :
                     MapGet(coll[id].plaid2text, "pulled_to_file") = Some("False")}
  IN  Cardinality(unpulled) > 0

\* check_pending: len(list(find({'plaid2text.pulled_to_file': {"$ne": True}}))) > 0
MongoCheckPendingResult(coll) ==
  LET unpulled == {id \in DOMAIN coll :
                     MapGet(coll[id].plaid2text, "pulled_to_file") # Some("True")}
  IN  Cardinality(unpulled) > 0

MongoCheckPending ==
  /\ backend = "mongo"
  /\ pc = "idle"
  /\ pc' = "check"
  /\ call' = [NoCall EXCEPT !.op = "check",
                            !.ret = IF MongoCheckPendingResult(account) THEN "True" ELSE "False"]
  /\ UNCHANGED <<backend, account, table>>

-----------------------------------------------------------------------------
(* SQLiteStorage *)

DataKeyOrder ==
  <<"account_id", "amount", "date", "pending", "transaction_id", "authorized_date">>

\* serialize_transaction raises (None has no isoformat) when the transaction
\* has no authorized_date
SerializeRaises(t) == t.authorized_date = NoDate

\* serialize_transaction: the mapping with its dates as ISO texts
SerializeTransaction(t) ==
  [account_id |-> t.account_id, amount |-> t.amount, date |-> IsoFormat(t.date),
   pending |-> t.pending, transaction_id |-> t.transaction_id,
   authorized_date |-> IsoFormat(t.authorized_date)]

\* json.dumps(serialize_transaction(t)): the members in insertion order
JsonDumpsData(data) == [i \in 1 .. Len(DataKeyOrder) |-> <<DataKeyOrder[i], data[DataKeyOrder[i]]>>]
\* json.loads(row[0])
JsonLoadsData(txt) == [k \in JsonKeys(txt) |-> JsonMember(txt, k)]

\* metadata = t.get('plaid2text', None), json.dumps when not None
SqliteMetadataParam(t) ==
  IF t.plaid2text = NULL THEN NULL ELSE Some(JsonDumps(TheVal(t.plaid2text)))

\* "on conflict ... DO UPDATE set ... metadata = excluded.metadata"
SqliteConflictMetadata(old, excluded) == excluded.metadata

\* the insert with "on conflict ... DO NOTHING": a stored row is left as it is
SqliteUpsert_DoNothing(rows, t) ==
  LET key == <<t.account_id, t.transaction_id>>
      excluded == [plaid_json |-> JsonDumpsData(SerializeTransaction(t)),
                   metadata |-> SqliteMetadataParam(t)]
  IN  [k \in (DOMAIN rows) \cup {key} |-> IF k \in DOMAIN rows THEN rows[k] ELSE excluded]

\* insert ... on conflict(account_id, transaction_id) DO UPDATE
SqliteUpsert(rows, t) ==
  LET key == <<t.account_id, t.transaction_id>>
      excluded == [plaid_json |-> JsonDumpsData(SerializeTransaction(t)),
                   metadata |-> SqliteMetadataParam(t)]
      row == IF key \in DOMAIN rows
             THEN [plaid_json |-> excluded.plaid_json,
                   metadata |-> SqliteConflictMetadata(rows[key], excluded)]
             ELSE excluded
  IN  [k \in (DOMAIN rows) \cup {key} |-> IF k = key THEN row ELSE rows[k]]

\* one iteration of save_transactions' loop
SqliteSaveStep(t) ==
  /\ backend = "sqlite"
  /\ pc \in {"idle", "save"}
  /\ \/ <<t.account_id, t.transaction_id>> \in DOMAIN table
     \/ Cardinality(DOMAIN table) < MaxRows
  /\ IF SerializeRaises(t)
     THEN /\ table' = table
          /\ pc' = "idle"
          /\ call' = Raised("save", "AttributeError")
     ELSE /\ table' = SqliteUpsert(table, t)
          /\ pc' = "save"
          /\ call' = [NoCall EXCEPT !.op = "save", !.id = t.transaction_id,
                        !.hit = (<<t.account_id, t.transaction_id>> \in DOMAIN table),
                        !.txn = Some(t)]
  /\ UNCHANGED <<backend, account>>

\* the where clause get_transactions builds, applied to one row
SqliteMatches(row, from_date, to_date, only_new) ==
  LET pulled == JsonExtract(row.plaid_json, "pulled_to_file")
      date == TheVal(JsonExtract(row.plaid_json, "date"))
  IN  /\ only_new => (IF pulled = NULL THEN TRUE ELSE TheVal(pulled) = FALSE)
      /\ IF from_date # NoDate /\ to_date # NoDate /\ from_date <= to_date
         THEN TextLeq(IsoFormat(from_date), date) /\ TextLeq(date, IsoFormat(to_date))
         ELSE IF from_date # NoDate /\ to_date = NoDate
         THEN TextLeq(IsoFormat(from_date), date)
         ELSE IF from_date = NoDate /\ to_date # NoDate
         THEN TextLeq(date, IsoFormat(to_date))
         ELSE TRUE

\* the decoded metadata column returned as it is, {} included
SqliteRowMetadata_KeepEmpty(row) ==
  IF row.metadata # NULL THEN Some(JsonLoads(TheVal(row.metadata))) ELSE Some(EmptyMap)

\* the plaid2text of a returned record: the decoded metadata column, None
\* for NULL and for the empty mapping
SqliteRowMetadata(row) ==
  LET m == IF row.metadata # NULL THEN JsonLoads(TheVal(row.metadata)) ELSE EmptyMap
  IN  IF Cardinality(DOMAIN m) = 0 THEN NULL ELSE Some(m)

\* the loop over the fetched rows: one returned record
SqliteDecodeRow(row) ==
  LET t == JsonLoadsData(row.plaid_json)
  IN  [account_id |-> t.account_id, amount |-> t.amount, date |-> DateParse(t.date),
       pending |-> t.pending, transaction_id |-> t.transaction_id,
       authorized_date |-> t.authorized_date, plaid2text |-> SqliteRowMetadata(row)]

\* fetchall() of a select without "order by": the matching rows in any order
SqliteFetchAll(rows, from_date, to_date, only_new) ==
  Orderings({k \in DOMAIN rows : SqliteMatches(rows[k], from_date, to_date, only_new)})

\* print(transactions[0]) raises IndexError when no row matched
SqliteGetRaises(fetched) == Len(fetched) = 0

\* get_transactions: its possible outcomes, an exception or a list
SqliteGetTransactions(rows, from_date, to_date, only_new) ==
  {IF SqliteGetRaises(fetched)
   THEN [raised |-> TRUE, out |-> <<>>]
   ELSE [raised |-> FALSE,
         out |-> [i \in 1 .. Len(fetched) |-> SqliteDecodeRow(rows[fetched[i]])]] :
     fetched \in SqliteFetchAll(rows, from_date, to_date, only_new)}

SqliteGet(from_date, to_date, only_new) ==
  /\ backend = "sqlite"
  /\ pc = "idle"
  /\ \E r \in SqliteGetTransactions(table, from_date, to_date, only_new) :
       IF r.raised
       THEN /\ pc' = "idle"
            /\ call' = Raised("get", "IndexError")
       ELSE /\ pc' = "get"
            /\ call' = [NoCall EXCEPT !.op = "get", !.from = from_date, !.to = to_date,
                                      !.only_new = only_new, !.out = r.out]
  /\ UNCHANGED <<backend, account, table>>

\* the iteration as it would run were null defined as None: the statement
\* json_patch(coalesce(metadata, '{}'), txn) where transaction_id = id (a
\* member of txn that is null removes the key)
SqliteUpdateStep_NullDefined(e, mark_pulled) ==
  LET txn == MongoUpdateDoc(e.patch, mark_pulled)
      Old(row) == IF row.metadata = NULL THEN EmptyMap ELSE JsonLoads(TheVal(row.metadata))
      Patch(old) ==
        [k \in ((DOMAIN old) \cup (DOMAIN txn)) \ {x \in DOMAIN txn : txn[x] = "None"} |->
           IF k \in DOMAIN txn THEN txn[k] ELSE old[k]]
  IN  /\ backend = "sqlite"
      /\ pc \in {"idle", "update"}
      /\ table' = [k \in DOMAIN table |->
                     IF k[2] = e.transaction_id
                     THEN [table[k] EXCEPT !.metadata = Some(JsonDumps(Patch(Old(table[k]))))]
                     ELSE table[k]]
      /\ pc' = "update"
      /\ call' = [NoCall EXCEPT !.op = "update", !.id = e.transaction_id,
                                !.mark = mark_pulled]
      /\ UNCHANGED <<backend, account>>

\* one iteration of update_transaction's loop: txn['archived'] = null raises
\* NameError before any statement is executed
SqliteUpdateStep(e, mark_pulled) ==
  /\ backend = "sqlite"
  /\ pc = "idle"
  /\ table' = table
  /\ pc' = "idle"
  /\ call' = Raised("update", "NameError")
  /\ UNCHANGED <<backend, account>>

\* check_pending is defined without self.  Called on an instance (bound),
\* the instance is passed to a function of no parameters: TypeError, the body
\* does not run.  Called on the class, it prints its message and returns None.
SqliteCheckPending(bound) ==
  /\ backend = "sqlite"
  /\ pc = "idle"
  /\ IF bound
     THEN /\ pc' = "idle"
          /\ call' = Raised("check", "TypeError")
     ELSE /\ pc' = "check"
          /\ call' = [NoCall EXCEPT !.op = "check", !.ret = "None"]
  /\ UNCHANGED <<backend, account, table>>

-----------------------------------------------------------------------------
(* The end of a handler *)

\* the writers' loops end; get_transactions and check_pending return
Return ==
  /\ pc \in {"save", "update", "get", "check"}
  /\ pc' = "idle"
  /\ call' = NoCall
  /\ UNCHANGED <<backend, account, table>>

MongoNext ==
  \/ \E t \in Transactions : MongoSaveStep(t)
  \/ \E e \in UpdateEntries, m \in MarkValues : MongoUpdateStep(e, m)
  \/ \E f \in DateArgs, t \in DateArgs, o \in BOOLEAN : MongoGet(f, t, o)
  \/ MongoCheckPending
  \/ Return

SqliteNext ==
  \/ \E t \in Transactions : SqliteSaveStep(t)
  \/ \E e \in UpdateEntries, m \in MarkValues : SqliteUpdateStep(e, m)
  \/ \E f \in DateArgs, t \in DateArgs, o \in BOOLEAN : SqliteGet(f, t, o)
  \/ \E bound \in BOOLEAN : SqliteCheckPending(bound)
  \/ Return

Next == MongoNext \/ SqliteNext

\* a storage instance of either backend
Spec == Init /\ [][Next]_vars
\* a MongoDBStorage instance
SpecMongo == InitMongo /\ [][MongoNext]_vars
\* a SQLiteStorage instance
SpecSqlite == InitSqlite /\ [][SqliteNext]_vars

-----------------------------------------------------------------------------
(* Properties *)

\* the transaction ids of a returned list
OutIds(out) == {out[i].transaction_id : i \in 1 .. Len(out)}
\* the (account_id, transaction_id) pairs of a returned list
OutKeys(out) == {<<out[i].account_id, out[i].transaction_id>> : i \in 1 .. Len(out)}
\* get_transactions has returned a list
Returned == call.op = "get" /\ ~call.raised
\* the decoded metadata column of a row
RowMetadata(row) ==
  IF row.metadata = NULL THEN NULL ELSE Some(JsonLoads(TheVal(row.metadata)))
\* the outcomes get_transactions can have on a store of the instance's backend
GetOutcomes(coll, rows, from_date, to_date, only_new) ==
  IF backend = "mongo"
  THEN {[raised |-> FALSE, out |-> s] :
          s \in MongoGetTransactions(coll, from_date, to_date, only_new)}
  ELSE SqliteGetTransactions(rows, from_date, to_date, only_new)
\* the (account_id, transaction_id) pairs of the stored records
StoredKeys(coll, rows) ==
  IF backend = "mongo"
  THEN {<<coll[id].account_id, id>> : id \in DOMAIN coll}
  ELSE DOMAIN rows
\* the metadata of the stored record of a pair, NULL when it has none
StoredMetadata(coll, rows, key) ==
  IF backend = "mongo" THEN Some(coll[key[2]].plaid2text) ELSE RowMetadata(rows[key])
\* the stored records whose metadata has pulled_to_file = True
PulledKeys(coll, rows) ==
  {key \in StoredKeys(coll, rows) :
     /\ StoredMetadata(coll, rows, key) # NULL
     /\ MapGet(TheVal(StoredMetadata(coll, rows, key)), "pulled_to_file") = Some("True")}

\* C1: MongoDBStorage: a step of save_transactions leaves the plaid2text
\* sub-document of every document that was already stored as it was (so a
\* re-save keeps the default of the first save and whatever an earlier
\* update_transaction wrote).
C1_MongoSaveKeepsMetadata ==
  [][(backend = "mongo" /\ pc \in {"idle", "save"} /\ call'.op = "save")
       => \A id \in DOMAIN account :
            /\ id \in DOMAIN account'
            /\ account'[id].plaid2text = account[id].plaid2text]_vars

\* a non-pending transaction was saved over a stored document whose metadata
\* an update_transaction had written, and the metadata is still there
C1_Witness ==
  /\ backend = "mongo" /\ pc = "save" /\ call.hit
  /\ ~account[call.id].pending
  /\ account[call.id].plaid2text = [payee |-> "Cafe", pulled_to_file |-> "True",
                                    date_last_pulled |-> "now"]

\* C2: SQLiteStorage: a step of save_transactions on a key that is already
\* stored leaves the row's metadata column as it was.
C2_SqliteSaveKeepsMetadata ==
  [][\A t \in Transactions :
       SqliteSaveStep(t)
         => \A k \in DOMAIN table :
              /\ k \in DOMAIN table'
              /\ table'[k].metadata = table[k].metadata]_vars

\* C3: no stored record and no returned record is a pending transaction.
C3_NoPendingStored ==
  /\ \A id \in DOMAIN account : ~account[id].pending
  /\ \A k \in DOMAIN table : ~JsonLoadsData(table[k].plaid_json).pending
  /\ Returned => \A i \in 1 .. Len(call.out) : ~call.out[i].pending

\* C4: after a step of update_transaction with mark_pulled = True that names
\* a stored id, no get_transactions with only_new returns that id, and
\* get_transactions without only_new and without dates returns it.
C4_MarkedPulledExcluded ==
  [][\A e \in UpdateEntries :
       (/\ MongoUpdateStep(e, "True") \/ SqliteUpdateStep(e, "True")
        /\ \E key \in StoredKeys(account, table) : key[2] = e.transaction_id)
         => /\ \A f, t \in DateArgs :
                 \A r \in GetOutcomes(account', table', f, t, TRUE) :
                   e.transaction_id \notin OutIds(r.out)
            /\ \A r \in GetOutcomes(account', table', NoDate, NoDate, FALSE) :
                 ~r.raised /\ e.transaction_id \in OutIds(r.out)]_vars

\* the stored (account_id, transaction_id) pairs that are not pending and
\* whose date is a day of from_date .. to_date
StoredInRange(from_date, to_date) ==
  IF backend = "mongo"
  THEN {<<account[id].account_id, id>> : id \in
          {x \in DOMAIN account : /\ ~account[x].pending
                                  /\ account[x].date.day \in from_date .. to_date}}
  ELSE {k \in DOMAIN table :
          LET t == JsonLoadsData(table[k].plaid_json)
          IN  ~t.pending /\ DateParse(t.date).day \in from_date .. to_date}

C6_SortedByDate ==
  Returned => \A i, j \in 1 .. Len(call.out) :
                i < j => call.out[i].date.day <= call.out[j].date.day

\* the keys update_transaction itself writes
MarkKeys == {"pulled_to_file", "date_last_pulled"}

\* C7: a step of update_transaction leaves every metadata key that its
\* patch does not name (and that mark_pulled does not set) with the value it
\* had, in every stored record.
C7_UpdateIsMerge ==
  [][\A e \in UpdateEntries, m \in MarkValues :
       (MongoUpdateStep(e, m) \/ SqliteUpdateStep(e, m))
         => /\ \A id \in DOMAIN account :
                 \A k \in (DOMAIN account[id].plaid2text) \ ((DOMAIN e.patch) \cup MarkKeys) :
                   /\ k \in DOMAIN account'[id].plaid2text
                   /\ account'[id].plaid2text[k] = account[id].plaid2text[k]
            /\ \A key \in DOMAIN table : table'[key].metadata = table[key].metadata]_vars

\* C8: a step of update_transaction with mark_pulled left at None that names
\* a record marked pulled leaves it marked pulled, and no get_transactions
\* with only_new returns it afterwards.
C8_UnmarkedUpdateKeepsPulled ==
  [][\A e \in UpdateEntries :
       (MongoUpdateStep(e, "None") \/ SqliteUpdateStep(e, "None"))
         => \A key \in PulledKeys(account, table) :
              key[2] = e.transaction_id
                => /\ key \in PulledKeys(account', table')
                   /\ \A f, t \in DateArgs :
                        \A r \in GetOutcomes(account', table', f, t, TRUE) :
                          key \notin OutKeys(r.out)]_vars

\* the default metadata of the specification, date_downloaded aside
DefaultMetadata ==
  [tags |-> "[]", payee |-> "", posting_account |-> "", associated_account |-> "",
   date_last_pulled |-> "None", pulled_to_file |-> "False"]
IsDefaultMetadata(m) ==
  /\ DOMAIN m = (DOMAIN DefaultMetadata) \cup {"date_downloaded"}
  /\ \A k \in DOMAIN DefaultMetadata : m[k] = DefaultMetadata[k]

\* C9: the record a step of save_transactions creates for a non-pending
\* transaction has the default metadata.
C9_InsertHasDefaultMetadata ==
  [][\A t \in Transactions :
       ((MongoSaveStep(t) \/ SqliteSaveStep(t)) /\ ~t.pending)
         => \A key \in StoredKeys(account', table') \ StoredKeys(account, table) :
              /\ StoredMetadata(account', table', key) # NULL
              /\ IsDefaultMetadata(TheVal(StoredMetadata(account', table', key)))]_vars

\* C10: SQLiteStorage: a returned record whose row has a NULL metadata
\* column or one that decodes to the empty mapping has plaid2text None, and
\* a plaid2text that is not None has at least one key.
C10_SqliteNoEmptyMetadata ==
  (backend = "sqlite" /\ Returned)
    => \A i \in 1 .. Len(call.out) :
         LET r == call.out[i]
             row == table[<<r.account_id, r.transaction_id>>]
         IN  /\ (row.metadata = NULL \/ DOMAIN TheVal(RowMetadata(row)) = {})
                  => r.plaid2text = NULL
             /\ r.plaid2text # NULL => DOMAIN TheVal(r.plaid2text) # {}

\* one call returned a record of a row whose metadata is the text of {} with
\* plaid2text None, and a record with a mapping that has a key
C10_Witness ==
  /\ backend = "sqlite" /\ pc = "get"
  /\ \E i, j \in 1 .. Len(call.out) :
       /\ table[<<call.out[i].account_id, call.out[i].transaction_id>>].metadata = Some(<<>>)
       /\ call.out[i].plaid2text = NULL
       /\ call.out[j].plaid2text = Some([pulled_to_file |-> "True"])

\* C11: MongoDBStorage: check_pending returns True exactly when a stored
\* document has a pulled_to_file that is not True (absent and None included),
\* which is exactly when get_transactions(None, None, only_new=True) returns
\* a list that is not empty; otherwise it returns False.
C11_CheckPendingIffUnpulled ==
  (backend = "mongo" /\ call.op = "check")
    => /\ ~call.raised
       /\ call.ret \in {"True", "False"}
       /\ call.ret = "True"
            <=> \E id \in DOMAIN account :
                  ~("pulled_to_file" \in DOMAIN account[id].plaid2text
                      /\ account[id].plaid2text.pulled_to_file = "True")
       /\ \A out \in MongoGetTransactions(account, NoDate, NoDate, TRUE) :
            call.ret = "True" <=> Len(out) > 0

\* check_pending returned True on a collection with a document marked pulled
\* and a document whose pulled_to_file an update without mark_pulled set to
\* None
C11_Witness ==
  /\ backend = "mongo" /\ pc = "check" /\ call.ret = "True"
  /\ \E id1, id2 \in DOMAIN account :
       /\ MapGet(account[id1].plaid2text, "pulled_to_file") = Some("True")
       /\ MapGet(account[id2].plaid2text, "pulled_to_file") = Some("None")

\* the exception classes that say an operation is not supported
UnsupportedErrors == {"NotImplementedError", "UnsupportedOperation"}

\* C12: SQLiteStorage: check_pending called on a storage instance ends by an
\* exception that says the operation is not supported; it does not return.
C12_SqliteCheckPendingUnsupported ==
  [][SqliteCheckPending(TRUE)
       => (pc' = "idle" /\ call'.raised /\ call'.error \in UnsupportedErrors)]_vars

\* the (account_id, transaction_id) pair a stored record holds
MongoDocPair(doc) == <<doc.account_id, doc.transaction_id>>
SqliteRowPair(row) ==
  <<JsonMember(row.plaid_json, "account_id"), JsonMember(row.plaid_json, "transaction_id")>>

\* C13: no two stored records (documents of distinct _id, rows of distinct
\* index key) hold the same (account_id, transaction_id) pair.
C13_OneRecordPerKey ==
  /\ \A x, y \in DOMAIN account :
       MongoDocPair(account[x]) = MongoDocPair(account[y]) => x = y
  /\ \A x, y \in DOMAIN table :
       SqliteRowPair(table[x]) = SqliteRowPair(table[y]) => x = y

\* save_transactions has just written a transaction whose key was already
\* stored, next to another stored record
C13_Witness ==
  /\ pc = "save" /\ call.hit /\ ~call.raised
  /\ Cardinality(StoredKeys(account, table)) = 2
  /\ \E key \in StoredKeys(account, table) : key[2] = call.id

\* the core fields of a transaction given to save_transactions
TxnCore(t) ==
  [account_id |-> t.account_id, transaction_id |-> t.transaction_id, amount |-> t.amount,
   date |-> t.date, pending |-> t.pending, authorized_date |-> t.authorized_date]
\* the core fields of a record get_transactions returns, dates as day numbers
ReturnedCore(r) ==
  [account_id |-> r.account_id, transaction_id |-> r.transaction_id, amount |-> r.amount,
   date |-> r.date.day, pending |-> r.pending,
   authorized_date |->
     IF backend = "mongo"
     THEN (IF r.authorized_date = NULL THEN NoDate ELSE TheVal(r.authorized_date).day)
     ELSE DateParse(r.authorized_date).day]

\* C14: once a step of save_transactions has written a non-pending
\* transaction, get_transactions without filters returns a record of its
\* (account_id, transaction_id), and every such record has the core fields
\* of that transaction, whatever was stored under the key before.
C14_LastSaveWins ==
  (pc = "save" /\ call.txn # NULL /\ ~TheVal(call.txn).pending)
    => LET t == TheVal(call.txn)
       IN  \A r \in GetOutcomes(account, table, NoDate, NoDate, FALSE) :
             /\ ~r.raised
             /\ <<t.account_id, t.transaction_id>> \in OutKeys(r.out)
             /\ \A i \in 1 .. Len(r.out) :
                  (r.out[i].account_id = t.account_id
                     /\ r.out[i].transaction_id = t.transaction_id)
                    => ReturnedCore(r.out[i]) = TxnCore(t)

\* a transaction with amount 2 has just been saved over a stored record of
\* its key (the first save of a key in a new store cannot hit)
C14_Witness ==
  /\ pc = "save" /\ call.hit /\ call.txn # NULL
  /\ TheVal(call.txn).amount = 2 /\ ~TheVal(call.txn).pending

\* C15: every record get_transactions returns is dated on or after from_date
\* when from_date is given and on or before to_date when to_date is given
\* (so nothing is returned when from_date > to_date).
C15_DateBoundsHold ==
  Returned
    => \A i \in 1 .. Len(call.out) :
         /\ call.from # NoDate => call.from <= call.out[i].date.day
         /\ call.to # NoDate => call.out[i].date.day <= call.to

\* C16: a step of update_transaction adds and removes no record, changes no
\* field of a record other than its metadata, and changes nothing in a
\* record whose transaction_id is not the one of the entry.
C16_UpdateTouchesMetadataOfTargetOnly ==
  [][(call'.op = "update" /\ pc \in {"idle", "update"})
       => /\ DOMAIN account' = DOMAIN account
          /\ DOMAIN table' = DOMAIN table
          /\ \A id \in DOMAIN account :
               /\ [account'[id] EXCEPT !.plaid2text = account[id].plaid2text] = account[id]
               /\ id # call'.id => account'[id] = account[id]
          /\ \A key \in DOMAIN table :
               /\ table'[key].plaid_json = table[key].plaid_json
               /\ key[2] # call'.id => table'[key] = table[key]]_vars

\* update_transaction has just written the metadata of one of two stored
\* documents, and the other still has the default metadata
C16_Witness ==
  /\ backend = "mongo" /\ pc = "update" /\ call.hit
  /\ account[call.id].plaid2text = MongoUpdateDoc([payee |-> "Cafe"], call.mark)
  /\ \E id \in DOMAIN account : id # call.id /\ account[id].plaid2text = TEXT_DOC

\* C17: a step of save_transactions given a non-pending transaction without
\* authorized_date does not raise: the transaction is stored and the loop
\* goes on with the rest of the batch.
C17_MissingAuthorizedDateTolerated ==
  [][\A t \in Transactions :
       ((MongoSaveStep(t) \/ SqliteSaveStep(t)) /\ ~t.pending /\ t.authorized_date = NoDate)
         => /\ ~call'.raised
            /\ pc' = "save"
            /\ <<t.account_id, t.transaction_id>> \in StoredKeys(account', table')]_vars

\* C18: get_transactions never ends by an exception: when no stored record
\* matches its filters it returns the empty list.
C18_GetNeverRaises ==
  call.op = "get" => ~call.raised

\* C19: SQLiteStorage: a step of update_transaction ends the call by
\* NameError and leaves every row's metadata as it was; no row becomes
\* marked pulled.
C19_SqliteUpdateAlwaysFails ==
  [][(backend = "sqlite" /\ call'.op = "update")
       => /\ pc' = "idle"
          /\ call'.raised /\ call'.error = "NameError"
          /\ DOMAIN table' = DOMAIN table
          /\ \A key \in DOMAIN table : table'[key].metadata = table[key].metadata
          /\ PulledKeys(account', table') \subseteq PulledKeys(account, table)]_vars

\* update_transaction has raised on a table where every transaction_id an
\* entry can name is stored, and a row still has no metadata
C19_Witness ==
  /\ backend = "sqlite" /\ pc = "idle"
  /\ call = Raised("update", "NameError")
  /\ \A id \in TxnIds : \E key \in DOMAIN table : key[2] = id
  /\ \E key \in DOMAIN table : table[key].metadata = NULL

====
